---- MODULE Spec2Model ----
(***************************************************************************)
(* Model of the match-scoring engine of mentor_matching_app.py: the four   *)
(* similarity primitives (calculate_tag_overlap, check_language_match,     *)
(* check_format_compatibility, check_timezone_compatibility),              *)
(* calculate_match_score, the ranking find_best_matches and the Smart      *)
(* Matching page that runs it on the session's mentors and mentees.        *)
(*                                                                         *)
(* Representation.                                                         *)
(*  - A Python str is a sequence of one-character strings, so that         *)
(*    str.split, str.strip, str.lower and the `in` substring test are      *)
(*    computed character by character.                                     *)
(*  - The pandas missing value (NaN / None, what pd.isna accepts) is the    *)
(*    distinguished value NaN, which is not a sequence of characters.      *)
(*  - A Python float is an exact rational [n, d] in lowest terms.  The     *)
(*    only places where binary rounding could matter are the comparisons   *)
(*    > 50 and > 40, round(x, 1) and the format :.0f; for overlaps whose   *)
(*    union has fewer than 8 tokens the exact and the binary results       *)
(*    coincide (no overlap is a rounding tie and 0.5, 0.4 scale exactly).  *)
(***************************************************************************)
EXTENDS Integers, Sequences, FiniteSets, TLC

VARIABLES
    pc,          \* which function has been called on the inputs ("input_*" = none yet)
    tags1,       \* first argument of a similarity primitive
    tags2,       \* second argument of a similarity primitive
    mentor_row,  \* the mentor record handed to calculate_match_score
    mentee_row,  \* the mentee record handed to calculate_match_score
    ret,         \* the values returned by the call
    mentors,     \* st.session_state.mentors, or the mentors_df argument
    mentees,     \* st.session_state.mentees, or the mentees_df argument
    matches,     \* st.session_state.matches
    top_n,       \* the top_n argument / the value of its slider
    min_score,   \* the value of the minimum-score slider
    matches_df,  \* the candidate list of the last ranking run
    raised,      \* the exception the last call raised ("None" = it returned)
    clicked,     \* the widget whose interaction started the last script run
    use_email,   \* st.session_state.email_settings['use_email']
    send_emails, \* the value of the notification checkbox of the page
    sent         \* the calls of send_match_notification_email, with what each returned

score_vars == <<tags1, tags2, mentor_row, mentee_row, ret>>
email_vars == <<use_email, send_emails, sent>>
app_vars ==
    <<mentors, mentees, matches, top_n, min_score, matches_df, raised, clicked,
      email_vars>>
vars == <<pc, score_vars, app_vars>>

-----------------------------------------------------------------------------
(* Bounds of the model *)

\* longest generated argument of a primitive, in characters
MaxLen == 3

-----------------------------------------------------------------------------
(* Rationals standing for Python floats *)

RECURSIVE GCD(_, _)
GCD(a, b) == IF b = 0 THEN a ELSE GCD(b, a % b)

Abs(x) == IF x < 0 THEN -x ELSE x

Rat(n, d) ==
    LET g == GCD(Abs(n), Abs(d))
        s == IF d < 0 THEN -1 ELSE 1
    IN  [n |-> (s * n) \div g, d |-> (s * d) \div g]

Int2Rat(i) == [n |-> i, d |-> 1]
RAdd(x, y) == Rat(x.n * y.d + y.n * x.d, x.d * y.d)
RMul(x, y) == Rat(x.n * y.n, x.d * y.d)
RLt(x, y) == x.n * y.d < y.n * x.d
RLeq(x, y) == x.n * y.d <= y.n * x.d
RGt(x, y) == RLt(y, x)

\* nearest integer to x, ties to the even one (what round() and :.0f do on a
\* value that is exactly representable)
RoundHalfEven(x) ==
    LET fl == x.n \div x.d
        r2 == 2 * (x.n - fl * x.d)
    IN  IF r2 > x.d \/ (r2 = x.d /\ fl % 2 = 1) THEN fl + 1 ELSE fl

\* round(x, 1)
round1(x) == Rat(RoundHalfEven(RMul(x, Int2Rat(10))), 10)

\* f"{x:.0f}"
format_0f(x) == ToString(RoundHalfEven(x))

-----------------------------------------------------------------------------
(* Python str operations *)

NaN == <<"NaN">>

\* pd.isna(x)
isna(x) == x = NaN

Whitespace == {" ", "\t", "\n"}

UpperChars == <<"A", "B", "C", "D", "E", "F", "G", "H", "I", "J", "K", "L", "M",
                "N", "O", "P", "Q", "R", "S", "T", "U", "V", "W", "X", "Y", "Z">>
LowerChars == <<"a", "b", "c", "d", "e", "f", "g", "h", "i", "j", "k", "l", "m",
                "n", "o", "p", "q", "r", "s", "t", "u", "v", "w", "x", "y", "z">>

\* the lower-case letter of each upper-case letter
ToLower == [c \in {UpperChars[i] : i \in 1..Len(UpperChars)} |->
               LowerChars[CHOOSE i \in 1..Len(UpperChars) : UpperChars[i] = c]]

lower_char(c) == IF c \in DOMAIN ToLower THEN ToLower[c] ELSE c

\* str.lower()
lower(s) == [i \in 1..Len(s) |-> lower_char(s[i])]

\* index of the first character of s at or after i that is no whitespace
RECURSIVE first_kept(_, _)
first_kept(s, i) ==
    IF i > Len(s) \/ s[i] \notin Whitespace THEN i ELSE first_kept(s, i + 1)

\* index of the last character of s at or before i that is no whitespace
RECURSIVE last_kept(_, _)
last_kept(s, i) ==
    IF i < 1 \/ s[i] \notin Whitespace THEN i ELSE last_kept(s, i - 1)

\* str.strip()
strip(s) == SubSeq(s, first_kept(s, 1), last_kept(s, Len(s)))

\* index of the first ',' of s at or after i, Len(s) + 1 if there is none
RECURSIVE next_comma(_, _)
next_comma(s, i) ==
    IF i > Len(s) \/ s[i] = "," THEN i ELSE next_comma(s, i + 1)

\* the fields of s from index i on
RECURSIVE split_from(_, _)
split_from(s, i) ==
    LET k == next_comma(s, i)
    IN  IF k > Len(s) THEN <<SubSeq(s, i, Len(s))>>
        ELSE <<SubSeq(s, i, k - 1)>> \o split_from(s, k + 1)

\* str.split(','): always at least one field, empty fields kept
split(s) == split_from(s, 1)

\* sub in s
contains(sub, s) ==
    \E i \in 0..(Len(s) - Len(sub)) : SubSeq(s, i + 1, i + Len(sub)) = sub

\* set([t.strip().lower() for t in str(x).split(',')])
tag_set(x) ==
    LET fields == split(x)
    IN  {lower(strip(fields[i])) : i \in 1..Len(fields)}

-----------------------------------------------------------------------------
(* The similarity primitives *)

\* variant: the tokens are compared without lower-casing
calculate_tag_overlap_no_lower(tags1_, tags2_) ==
    IF isna(tags1_) \/ isna(tags2_) \/ Len(tags1_) = 0 \/ Len(tags2_) = 0
    THEN Int2Rat(0)
    ELSE LET fields1 == split(tags1_)
             fields2 == split(tags2_)
             set1 == {strip(fields1[i]) : i \in 1..Len(fields1)}
             set2 == {strip(fields2[i]) : i \in 1..Len(fields2)}
             intersection == Cardinality(set1 \cap set2)
             union == Cardinality(set1 \cup set2)
         IN  IF set1 = {} \/ set2 = {} THEN Int2Rat(0)
             ELSE IF union > 0 THEN RMul(Rat(intersection, union), Int2Rat(100))
             ELSE Int2Rat(0)

calculate_tag_overlap(tags1_, tags2_) ==
    IF isna(tags1_) \/ isna(tags2_) \/ Len(tags1_) = 0 \/ Len(tags2_) = 0
    THEN Int2Rat(0)
    ELSE LET set1 == tag_set(tags1_)
             set2 == tag_set(tags2_)
             intersection == Cardinality(set1 \cap set2)
             union == Cardinality(set1 \cup set2)
         IN  IF set1 = {} \/ set2 = {} THEN Int2Rat(0)
             ELSE IF union > 0 THEN RMul(Rat(intersection, union), Int2Rat(100))
             ELSE Int2Rat(0)

\* variant: the intersection is tested with >= 0
check_language_match_geq(mentor_langs, mentee_langs) ==
    IF isna(mentor_langs) \/ isna(mentee_langs) THEN FALSE
    ELSE LET mentor_set == tag_set(mentor_langs)
             mentee_set == tag_set(mentee_langs)
         IN  Cardinality(mentor_set \cap mentee_set) >= 0

check_language_match(mentor_langs, mentee_langs) ==
    IF isna(mentor_langs) \/ isna(mentee_langs) THEN FALSE
    ELSE LET mentor_set == tag_set(mentor_langs)
             mentee_set == tag_set(mentee_langs)
         IN  Cardinality(mentor_set \cap mentee_set) > 0

either == <<"e", "i", "t", "h", "e", "r">>

\* variant: no wildcard test
check_format_compatibility_no_wildcard(mentor_format, mentee_format) ==
    IF isna(mentor_format) \/ isna(mentee_format) THEN TRUE
    ELSE lower(strip(mentor_format)) = lower(strip(mentee_format))

check_format_compatibility(mentor_format, mentee_format) ==
    IF isna(mentor_format) \/ isna(mentee_format) THEN TRUE
    ELSE LET mentor_fmt == lower(strip(mentor_format))
             mentee_fmt == lower(strip(mentee_format))
         IN  IF contains(either, mentor_fmt) \/ contains(either, mentee_fmt)
             THEN TRUE
             ELSE mentor_fmt = mentee_fmt

\* variant: the labels are compared as entered
check_timezone_compatibility_raw(mentor_tz, mentee_tz) ==
    IF isna(mentor_tz) \/ isna(mentee_tz) THEN TRUE
    ELSE mentor_tz = mentee_tz

check_timezone_compatibility(mentor_tz, mentee_tz) ==
    IF isna(mentor_tz) \/ isna(mentee_tz) THEN TRUE
    ELSE lower(strip(mentor_tz)) = lower(strip(mentee_tz))

-----------------------------------------------------------------------------
(* calculate_match_score *)

\* the decimal literals of the function
Dec_0_4 == Rat(4, 10)
Dec_0_6 == Rat(6, 10)
Dec_0_30 == Rat(30, 100)
Dec_0_20 == Rat(20, 100)
Dec_0_15 == Rat(15, 100)
Dec_0_10 == Rat(10, 100)

\* "; ".join(parts)
RECURSIVE join(_)
join(parts) ==
    IF parts = <<>> THEN ""
    ELSE IF Len(parts) = 1 THEN parts[1]
    ELSE parts[1] \o "; " \o join(Tail(parts))

\* sector_score = (sector_overlap * 0.4 + expertise_overlap * 0.6)
sector_score(sector_overlap, expertise_overlap) ==
    RAdd(RMul(sector_overlap, Dec_0_4), RMul(expertise_overlap, Dec_0_6))

\* variant: the language score is stored without its weight
language_component_unweighted(has_language_match) ==
    Int2Rat(IF has_language_match THEN 100 ELSE 0)

\* language_score = 100 if has_language_match else 0;  language_score * 0.20
language_component(has_language_match) ==
    RMul(Int2Rat(IF has_language_match THEN 100 ELSE 0), Dec_0_20)

\* variant: an incompatible format scores 0
format_score_zero(format_compatible) ==
    Int2Rat(IF format_compatible THEN 100 ELSE 0)

\* format_score = 100 if format_compatible else 30
format_score(format_compatible) ==
    Int2Rat(IF format_compatible THEN 100 ELSE 30)

\* variant: incompatible time zones score 0
timezone_score_zero(timezone_compatible) ==
    Int2Rat(IF timezone_compatible THEN 100 ELSE 0)

\* timezone_score = 100 if timezone_compatible else 50
timezone_score(timezone_compatible) ==
    Int2Rat(IF timezone_compatible THEN 100 ELSE 50)

\* availability_score = 100 if not pd.isna(mentor) and not pd.isna(mentee) else 50
availability_score(mentor_availability, mentee_availability) ==
    Int2Rat(IF ~isna(mentor_availability) /\ ~isna(mentee_availability)
            THEN 100 ELSE 50)

\* sum(score_components.values()), in insertion order
total_score(components) ==
    RAdd(RAdd(RAdd(RAdd(RAdd(components.sector_expertise, components.language),
                        components.format),
                   components.timezone),
              components.availability),
         components.functions)

sector_clause(overlap) == "Strong sector alignment (" \o format_0f(overlap) \o "%)"
expertise_clause(overlap) == "High expertise-needs match (" \o format_0f(overlap) \o "%)"
function_clause(overlap) == "Functional fit (" \o format_0f(overlap) \o "%)"
\* the warning clause starts with the warning-sign emoji in the source
no_language_clause == "(!) No language overlap"

\* variant: >= 50
sector_clause_due_geq(sector_overlap) == RLeq(Int2Rat(50), sector_overlap)

\* if sector_overlap > 50
sector_clause_due(sector_overlap) == RGt(sector_overlap, Int2Rat(50))

\* if expertise_overlap > 50
expertise_clause_due(expertise_overlap) == RGt(expertise_overlap, Int2Rat(50))

\* if function_overlap > 40
function_clause_due(function_overlap) == RGt(function_overlap, Int2Rat(40))

\* the list rationale_parts when the function returns
rationale_parts(sector_overlap, expertise_overlap, has_language_match, format_compatible, timezone_compatible, function_overlap) ==
    LET p1 == IF sector_clause_due(sector_overlap)
              THEN <<sector_clause(sector_overlap)>> ELSE <<>>
        p2 == IF expertise_clause_due(expertise_overlap)
              THEN Append(p1, expertise_clause(expertise_overlap)) ELSE p1
        p3 == IF has_language_match
              THEN Append(p2, "Common language")
              ELSE Append(p2, no_language_clause)
        p4 == IF format_compatible THEN Append(p3, "Format compatible") ELSE p3
        p5 == IF timezone_compatible THEN Append(p4, "Same timezone") ELSE p4
    IN  IF function_clause_due(function_overlap)
        THEN Append(p5, function_clause(function_overlap)) ELSE p5

\* returns round(total_score, 1), rationale; the locals score_components and
\* rationale_parts are kept beside the result
calculate_match_score(mentor, mentee) ==
    LET sector_overlap == calculate_tag_overlap(mentor.Sectors, mentee.Sector)
        expertise_overlap == calculate_tag_overlap(mentor.Expertise, mentee.Needs)
        has_language_match == check_language_match(mentor.Languages, mentee.Languages)
        format_compatible == check_format_compatibility(mentor.Format, mentee.Format)
        timezone_compatible ==
            check_timezone_compatibility(mentor.TimeZone, mentee.TimeZone)
        function_overlap == calculate_tag_overlap(mentor.Functions, mentee.Needs)
        components ==
            [sector_expertise |->
                 RMul(sector_score(sector_overlap, expertise_overlap), Dec_0_30),
             language |-> language_component(has_language_match),
             format |-> RMul(format_score(format_compatible), Dec_0_15),
             timezone |-> RMul(timezone_score(timezone_compatible), Dec_0_10),
             availability |->
                 RMul(availability_score(mentor.Availability, mentee.Availability),
                      Dec_0_15),
             functions |-> RMul(function_overlap, Dec_0_10)]
        parts == rationale_parts(sector_overlap, expertise_overlap,
                                 has_language_match, format_compatible,
                                 timezone_compatible, function_overlap)
    IN  [score |-> round1(total_score(components)),
         rationale |-> join(parts),
         score_components |-> components,
         rationale_parts |-> parts]

-----------------------------------------------------------------------------
(* Input values *)

\* ""  (an st.text_input left empty)
Empty == <<>>
\* "FinTech, AI"
FinTech_AI == <<"F", "i", "n", "T", "e", "c", "h", ",", " ", "A", "I">>
\* "ai, fintech"
ai_fintech == <<"a", "i", ",", " ", "f", "i", "n", "t", "e", "c", "h">>
\* "FinTech"
FinTech == <<"F", "i", "n", "T", "e", "c", "h">>
\* "HealthTech"
HealthTech == <<"H", "e", "a", "l", "t", "h", "T", "e", "c", "h">>
\* "FinTech,HealthTech"
FinTech_HealthTech == <<"F", "i", "n", "T", "e", "c", "h", ",", "H", "e", "a", "l", "t", "h", "T", "e", "c", "h">>
\* "Fundraising"
Fundraising == <<"F", "u", "n", "d", "r", "a", "i", "s", "i", "n", "g">>
\* "English"
English == <<"E", "n", "g", "l", "i", "s", "h">>
\* "English, Portuguese"
English_Portuguese == <<"E", "n", "g", "l", "i", "s", "h", ",", " ", "P", "o", "r", "t", "u", "g", "u", "e", "s", "e">>
\* "English,Portuguese"
EnglishPortuguese == <<"E", "n", "g", "l", "i", "s", "h", ",", "P", "o", "r", "t", "u", "g", "u", "e", "s", "e">>
\* "Spanish"
Spanish == <<"S", "p", "a", "n", "i", "s", "h">>
\* "Remote"
Remote == <<"R", "e", "m", "o", "t", "e">>
\* "In-person"
In_person == <<"I", "n", "-", "p", "e", "r", "s", "o", "n">>
\* "Either"
Either == <<"E", "i", "t", "h", "e", "r">>
\* "UTC+1"
UTC_1 == <<"U", "T", "C", "+", "1">>
\* "UTC+01:00"
UTC_01_00 == <<"U", "T", "C", "+", "0", "1", ":", "0", "0">>
\* " utc+1 "
utc_1_padded == <<" ", "u", "t", "c", "+", "1", " ">>
\* "Mon-Fri"
Mon_Fri == <<"M", "o", "n", "-", "F", "r", "i">>
\* "Tue"
Tue == <<"T", "u", "e">>
\* "a,b"
a_b == <<"a", ",", "b">>
\* "a,b,c"
a_b_c == <<"a", ",", "b", ",", "c">>
\* "a,b,d,e"
a_b_d_e == <<"a", ",", "b", ",", "d", ",", "e">>

\* the characters the generated arguments are made of: a letter in both
\* cases, the separator and a whitespace character
Alphabet == {"a", "A", ",", " "}

\* every text of at most n characters over Alphabet
Texts(n) == UNION {[1..k -> Alphabet] : k \in 0..n}

NamedTexts ==
    {FinTech_AI, ai_fintech, FinTech, HealthTech, English_Portuguese, Spanish,
     Remote, In_person, Either, UTC_1, UTC_01_00, utc_1_padded}

\* the values a primitive is called with
PrimArgs == Texts(MaxLen) \cup NamedTexts \cup {NaN}

-----------------------------------------------------------------------------
(* Rows handed to calculate_match_score *)

MentorFields ==
    {"Sectors", "Expertise", "Languages", "Format", "TimeZone", "Availability",
     "Functions"}
MenteeFields ==
    {"Sector", "Needs", "Languages", "Format", "TimeZone", "Availability"}

\* what a field holds when nothing was entered: NaN (an empty CSV cell) or ""
\* (a text input left empty)
MissingValues == {NaN, Empty}

\* the end-to-end scenario; the mentor's Functions input was left empty
EndToEnd ==
    [mentor |-> [Sectors |-> FinTech_HealthTech, Expertise |-> Fundraising,
                 Languages |-> English, Format |-> Remote, TimeZone |-> UTC_1,
                 Availability |-> Mon_Fri, Functions |-> Empty],
     mentee |-> [Sector |-> FinTech, Needs |-> Fundraising,
                 Languages |-> EnglishPortuguese, Format |-> Remote,
                 TimeZone |-> UTC_1, Availability |-> Tue]]

\* nothing in common but the mentor's functions and the mentee's needs;
\* formats and time zones are present and differ
Mismatch ==
    [mentor |-> [Sectors |-> HealthTech, Expertise |-> a_b_c,
                 Languages |-> English_Portuguese, Format |-> Remote,
                 TimeZone |-> UTC_1, Availability |-> Mon_Fri,
                 Functions |-> Fundraising],
     mentee |-> [Sector |-> FinTech, Needs |-> Fundraising, Languages |-> Spanish,
                 Format |-> In_person, TimeZone |-> UTC_01_00,
                 Availability |-> Tue]]

\* overlaps around the thresholds: sector 2/3, expertise 50, function 40
OnThreshold ==
    [mentor |-> [Sectors |-> a_b_c, Expertise |-> a_b, Languages |-> English,
                 Format |-> Either, TimeZone |-> utc_1_padded,
                 Availability |-> Mon_Fri, Functions |-> a_b_c],
     mentee |-> [Sector |-> a_b, Needs |-> a_b_d_e,
                 Languages |-> English_Portuguese, Format |-> In_person,
                 TimeZone |-> UTC_1, Availability |-> Tue]]

BasePairs == {EndToEnd, Mismatch, OnThreshold}

\* row with the fields of `fields` holding `missing`
without(row, fields, missing) ==
    [f \in DOMAIN row |-> IF f \in fields THEN missing ELSE row[f]]

-----------------------------------------------------------------------------
(* State *)

NoMentor == [f \in MentorFields |-> NaN]
NoMentee == [f \in MenteeFields |-> NaN]

NoRet ==
    [overlap |-> Int2Rat(0), flag |-> FALSE, score |-> Int2Rat(0),
     rationale |-> "", rationale_parts |-> <<>>,
     score_components |->
         [c \in {"sector_expertise", "language", "format", "timezone",
                  "availability", "functions"} |-> Int2Rat(0)]]

\* the fallback email settings (no secrets configured), the notification
\* checkbox on its default, no email sent
InitEmail ==
    /\ use_email = FALSE
    /\ send_emails = FALSE
    /\ sent = <<>>

\* the session before any data is entered: empty tables (lines 44-66) and the
\* sliders of the Smart Matching page on their defaults (lines 601, 603)
InitSession ==
    /\ mentors = <<>>
    /\ mentees = <<>>
    /\ matches = <<>>
    /\ top_n = 3
    /\ min_score = 40
    /\ matches_df = <<>>
    /\ raised = "None"
    /\ clicked = "None"
    /\ InitEmail

InitPrim ==
    /\ pc = "input_prim"
    /\ tags1 \in PrimArgs
    /\ tags2 \in PrimArgs
    /\ mentor_row = NoMentor
    /\ mentee_row = NoMentee
    /\ ret = NoRet
    /\ InitSession

Call_calculate_tag_overlap ==
    /\ pc = "input_prim"
    /\ pc' = "calculate_tag_overlap"
    /\ ret' = [ret EXCEPT !.overlap = calculate_tag_overlap(tags1, tags2)]
    /\ UNCHANGED <<tags1, tags2, mentor_row, mentee_row>>
    /\ UNCHANGED app_vars

Call_check_language_match ==
    /\ pc = "input_prim"
    /\ pc' = "check_language_match"
    /\ ret' = [ret EXCEPT !.flag = check_language_match(tags1, tags2)]
    /\ UNCHANGED <<tags1, tags2, mentor_row, mentee_row>>
    /\ UNCHANGED app_vars

Call_check_format_compatibility ==
    /\ pc = "input_prim"
    /\ pc' = "check_format_compatibility"
    /\ ret' = [ret EXCEPT !.flag = check_format_compatibility(tags1, tags2)]
    /\ UNCHANGED <<tags1, tags2, mentor_row, mentee_row>>
    /\ UNCHANGED app_vars

Call_check_timezone_compatibility ==
    /\ pc = "input_prim"
    /\ pc' = "check_timezone_compatibility"
    /\ ret' = [ret EXCEPT !.flag = check_timezone_compatibility(tags1, tags2)]
    /\ UNCHANGED <<tags1, tags2, mentor_row, mentee_row>>
    /\ UNCHANGED app_vars

NextPrim ==
    \/ Call_calculate_tag_overlap
    \/ Call_check_language_match
    \/ Call_check_format_compatibility
    \/ Call_check_timezone_compatibility

\* the primitives, each called once on a pair of arguments
SpecPrim == InitPrim /\ [][NextPrim]_vars

InitScore ==
    /\ pc = "input_score"
    /\ tags1 = NaN
    /\ tags2 = NaN
    /\ \E base \in BasePairs, missing \in MissingValues :
          /\ mentor_row \in {without(base.mentor, fields, missing) :
                                fields \in SUBSET MentorFields}
          /\ mentee_row \in {without(base.mentee, fields, missing) :
                                fields \in SUBSET MenteeFields}
    /\ ret = NoRet
    /\ InitSession

Call_calculate_match_score ==
    /\ pc = "input_score"
    /\ pc' = "calculate_match_score"
    /\ LET returned == calculate_match_score(mentor_row, mentee_row)
       IN  ret' = [ret EXCEPT !.score = returned.score,
                              !.rationale = returned.rationale,
                              !.rationale_parts = returned.rationale_parts,
                              !.score_components = returned.score_components]
    /\ UNCHANGED <<tags1, tags2, mentor_row, mentee_row>>
    /\ UNCHANGED app_vars

NextScore == Call_calculate_match_score

\* calculate_match_score called once on a (mentor, mentee) pair
SpecScore == InitScore /\ [][NextScore]_vars

-----------------------------------------------------------------------------
(* Properties of the similarity primitives, under SpecPrim *)

\* absent: null / not-a-value, or a string that is empty after trimming
Absent(x) == isna(x) \/ strip(x) = <<>>

\* C3: for two non-absent inputs calculate_tag_overlap returns
\* 100 * |A \cap B| / |A \cup B| over the trimmed, lower-cased, de-duplicated
\* comma-separated tokens; it is symmetric in its arguments for all inputs;
\* "FinTech, AI" against "ai, fintech" gives 100 and "FinTech" against
\* "HealthTech" gives 0.
C3_TagOverlapIsJaccard ==
    pc = "calculate_tag_overlap" =>
        /\ (~Absent(tags1) /\ ~Absent(tags2)) =>
               ret.overlap = Rat(100 * Cardinality(tag_set(tags1) \cap tag_set(tags2)),
                                 Cardinality(tag_set(tags1) \cup tag_set(tags2)))
        /\ ret.overlap = calculate_tag_overlap(tags2, tags1)
        /\ (tags1 = FinTech_AI /\ tags2 = ai_fintech) => ret.overlap = Int2Rat(100)
        /\ (tags1 = FinTech /\ tags2 = HealthTech) => ret.overlap = Int2Rat(0)

C3_Witness ==
    /\ pc = "calculate_tag_overlap"
    /\ tags1 = FinTech_AI
    /\ tags2 = ai_fintech
    /\ ret.overlap = Int2Rat(100)

\* C4: calculate_tag_overlap returns 0 whenever either input is absent (null,
\* the empty string, or whitespace only), also when both are.
C4_AbsentGivesZero ==
    (pc = "calculate_tag_overlap" /\ (Absent(tags1) \/ Absent(tags2)))
        => ret.overlap = Int2Rat(0)

\* C5: check_language_match is true iff the token sets of the two inputs share
\* a token, and false whenever either input is absent.
C5_LanguageMatch ==
    pc = "check_language_match" =>
        (ret.flag <=> /\ ~Absent(tags1)
                      /\ ~Absent(tags2)
                      /\ tag_set(tags1) \cap tag_set(tags2) # {})

\* C6: check_format_compatibility and check_timezone_compatibility return
\* true whenever either input is absent, whatever the other input is.
C6_AbsentIsCompatible ==
    (/\ pc \in {"check_format_compatibility", "check_timezone_compatibility"}
     /\ (Absent(tags1) \/ Absent(tags2)))
        => ret.flag

\* C7: for two non-absent formats, check_format_compatibility is true if
\* either trimmed, lower-cased value contains "either", and otherwise iff the
\* two trimmed, lower-cased values are equal; "Either" against "In-person" is
\* compatible.
C7_FormatCompatibility ==
    pc = "check_format_compatibility" =>
        /\ (~Absent(tags1) /\ ~Absent(tags2)) =>
               (ret.flag <=> \/ contains(either, lower(strip(tags1)))
                             \/ contains(either, lower(strip(tags2)))
                             \/ lower(strip(tags1)) = lower(strip(tags2)))
        /\ (tags1 = Either /\ tags2 = In_person) => ret.flag

C7_Witness ==
    /\ pc = "check_format_compatibility"
    /\ tags1 = Either
    /\ tags2 = In_person
    /\ ret.flag

\* C8: for two non-absent time zone labels, check_timezone_compatibility is
\* true iff the trimmed, lower-cased labels are identical: "UTC+1" and
\* "UTC+01:00" are incompatible, "UTC+1" and " utc+1 " are compatible.
C8_TimezoneCompatibility ==
    pc = "check_timezone_compatibility" =>
        /\ (~Absent(tags1) /\ ~Absent(tags2)) =>
               (ret.flag <=> lower(strip(tags1)) = lower(strip(tags2)))
        /\ (tags1 = UTC_1 /\ tags2 = UTC_01_00) => ~ret.flag
        /\ (tags1 = UTC_1 /\ tags2 = utc_1_padded) => ret.flag

C8_Witness ==
    /\ pc = "check_timezone_compatibility"
    /\ tags1 = UTC_1
    /\ tags2 = utc_1_padded
    /\ ret.flag

-----------------------------------------------------------------------------
(* Properties of calculate_match_score, under SpecScore *)

\* k / 100
Hundredths(k) == Rat(k, 100)

\* C1: for every pair, with any subset of the scoring attributes absent or
\* empty on either side, the score returned is between 0 and 100.
C1_ScoreInRange ==
    pc = "calculate_match_score" =>
        /\ RLeq(Int2Rat(0), ret.score)
        /\ RLeq(ret.score, Int2Rat(100))

\* every attribute of both rows is missing, and the score is 32.5
C1_Witness ==
    /\ pc = "calculate_match_score"
    /\ \A f \in MentorFields : isna(mentor_row[f])
    /\ \A f \in MenteeFields : isna(mentee_row[f])
    /\ ret.score = Rat(325, 10)

\* C2: the score is 0.30*(0.4*sector + 0.6*expertise) + 0.20*language
\* + 0.15*format + 0.10*timezone + 0.15*availability + 0.10*function, rounded
\* to one decimal, with language 100/0, format 100/30, timezone 100/50 and
\* availability 100 or 50; the end-to-end scenario scores 84.0.
C2_ScoreFormula ==
    pc = "calculate_match_score" =>
        LET sector == calculate_tag_overlap(mentor_row.Sectors, mentee_row.Sector)
            expertise == calculate_tag_overlap(mentor_row.Expertise, mentee_row.Needs)
            function == calculate_tag_overlap(mentor_row.Functions, mentee_row.Needs)
            language ==
                IF check_language_match(mentor_row.Languages, mentee_row.Languages)
                THEN 100 ELSE 0
            format ==
                IF check_format_compatibility(mentor_row.Format, mentee_row.Format)
                THEN 100 ELSE 30
            timezone ==
                IF check_timezone_compatibility(mentor_row.TimeZone, mentee_row.TimeZone)
                THEN 100 ELSE 50
            rest(availability) ==
                Hundredths(20 * language + 15 * format + 10 * timezone
                           + 15 * availability)
            tags ==
                RAdd(RMul(Hundredths(30),
                          RAdd(RMul(Hundredths(40), sector),
                               RMul(Hundredths(60), expertise))),
                     RMul(Hundredths(10), function))
        IN  /\ \E availability \in {100, 50} :
                   ret.score = round1(RAdd(tags, rest(availability)))
            /\ (/\ mentor_row \in {EndToEnd.mentor,
                                   without(EndToEnd.mentor, {"Functions"}, NaN)}
                /\ mentee_row = EndToEnd.mentee)
                   => ret.score = Int2Rat(84)

C2_Witness ==
    /\ pc = "calculate_match_score"
    /\ mentor_row = EndToEnd.mentor
    /\ mentee_row = EndToEnd.mentee
    /\ ret.score = Int2Rat(84)

\* a value that was entered: neither null nor the empty string
NonEmpty(x) == ~isna(x) /\ x # Empty

\* C9: the availability component's raw value is 100 iff both availabilities
\* are non-empty and 50 otherwise, in particular 50 when either is the empty
\* string or null.
C9_AvailabilityValue ==
    pc = "calculate_match_score" =>
        ret.score_components.availability =
            RMul(Int2Rat(IF /\ NonEmpty(mentor_row.Availability)
                            /\ NonEmpty(mentee_row.Availability)
                         THEN 100 ELSE 50),
                 Hundredths(15))

\* C10: the rationale is, in this order and joined by "; ": a sector clause
\* iff the sector overlap is > 50, an expertise clause iff the expertise
\* overlap is > 50, one language clause, a format clause iff the formats are
\* compatible, a timezone clause iff the time zones are compatible, a
\* function clause iff the function overlap is > 40; no clause appears twice.
C10_Rationale ==
    pc = "calculate_match_score" =>
        LET sector == calculate_tag_overlap(mentor_row.Sectors, mentee_row.Sector)
            expertise == calculate_tag_overlap(mentor_row.Expertise, mentee_row.Needs)
            function == calculate_tag_overlap(mentor_row.Functions, mentee_row.Needs)
            expected ==
                (IF RGt(sector, Int2Rat(50)) THEN <<sector_clause(sector)>> ELSE <<>>)
                \o (IF RGt(expertise, Int2Rat(50))
                    THEN <<expertise_clause(expertise)>> ELSE <<>>)
                \o <<IF check_language_match(mentor_row.Languages, mentee_row.Languages)
                     THEN "Common language" ELSE no_language_clause>>
                \o (IF check_format_compatibility(mentor_row.Format, mentee_row.Format)
                    THEN <<"Format compatible">> ELSE <<>>)
                \o (IF check_timezone_compatibility(mentor_row.TimeZone,
                                                    mentee_row.TimeZone)
                    THEN <<"Same timezone">> ELSE <<>>)
                \o (IF RGt(function, Int2Rat(40))
                    THEN <<function_clause(function)>> ELSE <<>>)
        IN  /\ ret.rationale_parts = expected
            /\ ret.rationale = join(expected)
            /\ \A i, j \in 1..Len(ret.rationale_parts) :
                   i # j => ret.rationale_parts[i] # ret.rationale_parts[j]
            /\ sector = Int2Rat(50) =>
                   \A i \in 1..Len(ret.rationale_parts) :
                       ret.rationale_parts[i] # sector_clause(sector)
            /\ function = Int2Rat(40) =>
                   \A i \in 1..Len(ret.rationale_parts) :
                       ret.rationale_parts[i] # function_clause(function)

\* sector overlap 2/3, expertise overlap exactly 50, function overlap exactly 40
C10_Witness ==
    /\ pc = "calculate_match_score"
    /\ mentor_row = OnThreshold.mentor
    /\ mentee_row = OnThreshold.mentee
    /\ calculate_tag_overlap(mentor_row.Expertise, mentee_row.Needs) = Int2Rat(50)
    /\ calculate_tag_overlap(mentor_row.Functions, mentee_row.Needs) = Int2Rat(40)
    /\ ret.rationale =
           "Strong sector alignment (67%); Common language; Format compatible; Same timezone"

\* number of elements of the sequence s equal to x
Occurrences(s, x) == Cardinality({i \in 1..Len(s) : s[i] = x})

\* C11: every rationale holds exactly one of the two language clauses: the
\* positive one iff the languages match, the warning one iff they do not;
\* mentor languages "English, Portuguese" with mentee languages "Spanish"
\* give the warning clause and not the positive one.
C11_OneLanguageClause ==
    pc = "calculate_match_score" =>
        LET positive == Occurrences(ret.rationale_parts, "Common language")
            warning == Occurrences(ret.rationale_parts, no_language_clause)
            matched == check_language_match(mentor_row.Languages, mentee_row.Languages)
        IN  /\ ret.rationale = join(ret.rationale_parts)
            /\ positive + warning = 1
            /\ positive = 1 <=> matched
            /\ warning = 1 <=> ~matched
            /\ (/\ mentor_row.Languages = English_Portuguese
                /\ mentee_row.Languages = Spanish)
                   => (warning = 1 /\ positive = 0)

C11_Witness ==
    /\ pc = "calculate_match_score"
    /\ mentor_row.Languages = English_Portuguese
    /\ mentee_row.Languages = Spanish
    /\ Occurrences(ret.rationale_parts, no_language_clause) = 1
    /\ Occurrences(ret.rationale_parts, "Common language") = 0

-----------------------------------------------------------------------------
(* Ranking: find_best_matches *)

\* most mentors in a generated pool
MaxMentors == 3
\* most mentees in a generated pool
MaxMentees == 2
\* largest generated top_n
MaxTopN == 2

\* f"{n:03d}"
format_03d(n) ==
    IF n < 10 THEN "00" \o ToString(n)
    ELSE IF n < 100 THEN "0" \o ToString(n)
    ELSE ToString(n)

\* the entry appended to mentee_matches for one (mentor, mentee) pair
match_entry(mentor, mentee) ==
    LET returned == calculate_match_score(mentor, mentee)
    IN  [MenteeID |-> mentee.MenteeID,
         MenteeName |-> mentee.Name,
         MenteeEmail |-> mentee.Email,
         ProjectName |-> mentee.ProjectName,
         LPOC |-> mentee.LPOC,
         MentorID |-> mentor.MentorID,
         MentorName |-> mentor.Name,
         MentorEmail |-> mentor.Email,
         Score |-> returned.score,
         Rationale |-> returned.rationale]

\* mentee_matches after the loop over mentors_df.iterrows()
score_all(mentors_df, mentee) ==
    [j \in 1..Len(mentors_df) |-> match_entry(mentors_df[j], mentee)]

\* variant: an entry is placed before the entries of equal score
place_before_equal(sorted, entry) ==
    LET ahead == Cardinality({i \in 1..Len(sorted) :
                                 RGt(sorted[i].Score, entry.Score)})
    IN  SubSeq(sorted, 1, ahead) \o <<entry>>
            \o SubSeq(sorted, ahead + 1, Len(sorted))

\* variant: the list is kept in ascending order of Score
place_ascending(sorted, entry) ==
    LET ahead == Cardinality({i \in 1..Len(sorted) :
                                 ~RGt(sorted[i].Score, entry.Score)})
    IN  SubSeq(sorted, 1, ahead) \o <<entry>>
            \o SubSeq(sorted, ahead + 1, Len(sorted))

\* one entry placed into a list sorted by descending Score: behind every entry
\* whose Score is at least its own (list.sort is stable, also with reverse=True)
place(sorted, entry) ==
    LET ahead == Cardinality({i \in 1..Len(sorted) :
                                 ~RLt(sorted[i].Score, entry.Score)})
    IN  SubSeq(sorted, 1, ahead) \o <<entry>>
            \o SubSeq(sorted, ahead + 1, Len(sorted))

RECURSIVE sort_reverse(_)
\* list.sort(key=lambda x: x['Score'], reverse=True)
sort_reverse(list) ==
    IF list = <<>> THEN <<>>
    ELSE place(sort_reverse(SubSeq(list, 1, Len(list) - 1)), list[Len(list)])

\* variant: the slice keeps one entry less
slice_short(list, n) ==
    IF n - 1 >= 0 THEN SubSeq(list, 1, IF n - 1 < Len(list) THEN n - 1 ELSE Len(list))
    ELSE SubSeq(list, 1, Len(list) + n - 1)

\* list[:n]; a negative n counts from the end of the list
slice(list, n) ==
    IF n >= 0 THEN SubSeq(list, 1, IF n < Len(list) THEN n ELSE Len(list))
    ELSE SubSeq(list, 1, Len(list) + n)

\* what one iteration over mentees_df extends all_matches with
best_for(mentors_df, mentee, n) ==
    slice(sort_reverse(score_all(mentors_df, mentee)), n)

RECURSIVE find_best_matches_newest_first(_, _, _)
\* variant: each mentee's entries are put in front of all_matches
find_best_matches_newest_first(mentors_df, mentees_df, n) ==
    IF mentees_df = <<>> THEN <<>>
    ELSE best_for(mentors_df, mentees_df[Len(mentees_df)], n)
            \o find_best_matches_newest_first(
                   mentors_df, SubSeq(mentees_df, 1, Len(mentees_df) - 1), n)

RECURSIVE find_best_matches(_, _, _)
\* the rows of the returned DataFrame
find_best_matches(mentors_df, mentees_df, n) ==
    IF mentees_df = <<>> THEN <<>>
    ELSE find_best_matches(mentors_df,
                           SubSeq(mentees_df, 1, Len(mentees_df) - 1), n)
            \o best_for(mentors_df, mentees_df[Len(mentees_df)], n)

-----------------------------------------------------------------------------
(* Mentor and mentee tables *)

\* what the Add Mentor form is filled with, but for the Mentor ID; the columns
\* the matching never reads (Institution, City, ...) are left out
MentorProfiles ==
    {[Name |-> "Ana", Email |-> "ana@run.eu", profile |-> EndToEnd.mentor],
     [Name |-> "Bruno", Email |-> "bruno@run.eu", profile |-> Mismatch.mentor],
     [Name |-> "Carla", Email |-> "carla@run.eu", profile |-> OnThreshold.mentor]}

\* what the Add Mentee form is filled with, but for the Mentee ID
MenteeProfiles ==
    {[Name |-> "Duarte", Email |-> "duarte@run.eu", ProjectName |-> "PayFlow",
      LPOC |-> "Startup Leiria", profile |-> EndToEnd.mentee],
     [Name |-> "Eva", Email |-> "eva@run.eu", ProjectName |-> "Raiz",
      LPOC |-> "Startup Leiria", profile |-> Mismatch.mentee]}

\* the row the Add Mentor form appends
new_mentor(mentor_id, form) ==
    [MentorID |-> mentor_id, Name |-> form.Name, Email |-> form.Email,
     TimeZone |-> form.profile.TimeZone, Languages |-> form.profile.Languages,
     Sectors |-> form.profile.Sectors, Expertise |-> form.profile.Expertise,
     Functions |-> form.profile.Functions,
     Availability |-> form.profile.Availability, Format |-> form.profile.Format]

\* the row the Add Mentee form appends
new_mentee(mentee_id, form) ==
    [MenteeID |-> mentee_id, Name |-> form.Name, Email |-> form.Email,
     LPOC |-> form.LPOC, ProjectName |-> form.ProjectName,
     Sector |-> form.profile.Sector, Needs |-> form.profile.Needs,
     Languages |-> form.profile.Languages, TimeZone |-> form.profile.TimeZone,
     Availability |-> form.profile.Availability, Format |-> form.profile.Format]

\* the Mentor ID the form proposes when the table has n rows
default_mentor_id(n) == "M" \o format_03d(n + 1)
\* the Mentee ID the form proposes when the table has n rows
default_mentee_id(n) == "ME" \o format_03d(n + 1)

\* the mentor tables of up to n rows entered through the form with its
\* proposed IDs
MentorTables(n) ==
    {[i \in 1..Len(forms) |-> new_mentor(default_mentor_id(i - 1), forms[i])] :
        forms \in UNION {[1..k -> MentorProfiles] : k \in 0..n}}

\* the mentee tables of up to n rows entered the same way
MenteeTables(n) ==
    {[i \in 1..Len(forms) |-> new_mentee(default_mentee_id(i - 1), forms[i])] :
        forms \in UNION {[1..k -> MenteeProfiles] : k \in 0..n}}

-----------------------------------------------------------------------------
(* find_best_matches called once on two tables *)

InitRank ==
    /\ pc = "input_rank"
    /\ tags1 = NaN
    /\ tags2 = NaN
    /\ mentor_row = NoMentor
    /\ mentee_row = NoMentee
    /\ ret = NoRet
    /\ mentors \in MentorTables(MaxMentors)
    /\ mentees \in MenteeTables(MaxMentees)
    /\ matches = <<>>
    /\ top_n \in -1..MaxTopN
    /\ min_score = 40
    /\ matches_df = <<>>
    /\ raised = "None"
    /\ clicked = "None"
    /\ InitEmail

\* variant: a call on an empty table is rejected
Call_find_best_matches_checked ==
    /\ pc = "input_rank"
    /\ pc' = "find_best_matches"
    /\ IF mentors = <<>> \/ mentees = <<>>
       THEN matches_df' = <<>> /\ raised' = "ValueError"
       ELSE matches_df' = find_best_matches(mentors, mentees, top_n) /\ raised' = "None"
    /\ UNCHANGED <<mentors, mentees, matches, top_n, min_score, clicked>>
    /\ UNCHANGED email_vars
    /\ UNCHANGED score_vars

\* the function has no raise statement and calls nothing that raises on these
\* tables: it returns for every top_n
Call_find_best_matches ==
    /\ pc = "input_rank"
    /\ pc' = "find_best_matches"
    /\ matches_df' = find_best_matches(mentors, mentees, top_n)
    /\ raised' = "None"
    /\ UNCHANGED <<mentors, mentees, matches, top_n, min_score, clicked>>
    /\ UNCHANGED email_vars
    /\ UNCHANGED score_vars

NextRank == Call_find_best_matches

SpecRank == InitRank /\ [][NextRank]_vars

-----------------------------------------------------------------------------
(* Claims about find_best_matches *)

\* the entries of matches_df for the mentee in row e of mentees
group(e) == SelectSeq(matches_df, LAMBDA c : c.MenteeID = mentees[e].MenteeID)

\* the row of mentors an entry is for (the Mentor IDs of a table are distinct)
position(c) == CHOOSE j \in 1..Len(mentors) : mentors[j].MentorID = c.MentorID

\* the rows of mentors that have an entry in the group of mentee e
included(e) == {position(group(e)[i]) : i \in 1..Len(group(e))}

\* the score of the mentor in row j for the mentee in row e
pair_score(j, e) == calculate_match_score(mentors[j], mentees[e]).score

\* C12: for a positive top_n every mentee gets exactly min(top_n, |mentors|)
\* entries, each for a different row of the mentor table and carrying that
\* pair's score, and no mentor left out scores strictly higher than one kept.
C12_TopN ==
    (pc = "find_best_matches" /\ top_n > 0) =>
        \A e \in 1..Len(mentees) :
            LET g == group(e)
                kept == included(e)
                score == [j \in 1..Len(mentors) |-> pair_score(j, e)]
            IN  /\ Len(g) = IF top_n < Len(mentors) THEN top_n ELSE Len(mentors)
                /\ \A i \in 1..Len(g) :
                      \E j \in 1..Len(mentors) :
                          /\ mentors[j].MentorID = g[i].MentorID
                          /\ g[i].Score = score[j]
                /\ Cardinality(kept) = Len(g)
                /\ \A j \in kept, k \in (1..Len(mentors)) \ kept :
                      ~RGt(score[k], score[j])

\* two of three mentors are kept for each of two mentees, and the mentor left
\* out for the first mentee scores strictly less than both that are kept
C12_Witness ==
    /\ pc = "find_best_matches"
    /\ top_n = 2
    /\ Len(mentors) = 3
    /\ Len(mentees) = 2
    /\ Len(matches_df) = 4
    /\ \E k \in 1..3 :
          /\ k \notin included(1)
          /\ \A j \in included(1) : RLt(pair_score(k, 1), pair_score(j, 1))

\* C13: inside a mentee's group the scores do not increase, entries of equal
\* score stand in the order of the mentor table, and a mentor left out with the
\* score of a mentor kept stands later in the mentor table.
C13_StableDescending ==
    (pc = "find_best_matches" /\ top_n > 0) =>
        \A e \in 1..Len(mentees) :
            LET g == group(e)
                kept == included(e)
            IN  /\ \A i, k \in 1..Len(g) :
                      i < k =>
                        /\ ~RLt(g[i].Score, g[k].Score)
                        /\ g[i].Score = g[k].Score => position(g[i]) < position(g[k])
                /\ \A j \in kept, k \in (1..Len(mentors)) \ kept :
                      pair_score(k, e) = pair_score(j, e) => j < k

\* three mentors with the same score for the mentee, two kept: the first two
\* of the table, in the table's order
C13_Witness ==
    /\ pc = "find_best_matches"
    /\ top_n = 2
    /\ Len(mentors) = 3
    /\ Len(mentees) = 1
    /\ pair_score(1, 1) = pair_score(2, 1)
    /\ pair_score(2, 1) = pair_score(3, 1)
    /\ Len(matches_df) = 2
    /\ matches_df[1].MentorID = mentors[1].MentorID
    /\ matches_df[2].MentorID = mentors[2].MentorID

\* the row of mentees an entry is for (the Mentee IDs of a table are distinct)
mentee_position(c) == CHOOSE e \in 1..Len(mentees) : mentees[e].MenteeID = c.MenteeID

\* C14: the entries of matches_df stand in the order of the mentee table, each
\* mentee's entries next to one another, and a mentee's entries are what the
\* call returns for the mentor table and that mentee alone.
C14_GroupedByMentee ==
    pc = "find_best_matches" =>
        /\ \A i, k \in 1..Len(matches_df) :
              i < k => mentee_position(matches_df[i]) <= mentee_position(matches_df[k])
        /\ \A e \in 1..Len(mentees) :
              group(e) = find_best_matches(mentors, <<mentees[e]>>, top_n)

\* two mentees that rank the same two mentors differently, one entry each
C14_Witness ==
    /\ pc = "find_best_matches"
    /\ top_n = 1
    /\ Len(mentors) = 2
    /\ Len(mentees) = 2
    /\ Len(matches_df) = 2
    /\ matches_df[1].MenteeID = mentees[1].MenteeID
    /\ matches_df[2].MenteeID = mentees[2].MenteeID
    /\ matches_df[1].MentorID # matches_df[2].MentorID

\* C15: a call with top_n <= 0 signals InvalidArgument.
C15_InvalidArgument ==
    (pc = "find_best_matches" /\ top_n <= 0) => raised = "InvalidArgument"

\* C16: with a positive top_n and an empty mentor table, an empty mentee table
\* or both, the call returns an empty list and raises nothing.
C16_EmptyPools ==
    (/\ pc = "find_best_matches"
     /\ top_n > 0
     /\ (mentors = <<>> \/ mentees = <<>>))
        => (matches_df = <<>> /\ raised = "None")

\* mentees but no mentor
C16_Witness ==
    /\ pc = "find_best_matches"
    /\ top_n > 0
    /\ mentors = <<>>
    /\ Len(mentees) = 2
    /\ matches_df = <<>>
    /\ raised = "None"

-----------------------------------------------------------------------------
(* The Smart Matching page *)

\* most rows of a session table
MaxRows == 2

\* the values the minimum-score slider (0..100) is moved to
MinScores == {35, 40, 70}

\* the values the suggestions slider (1..5) is moved to
TopNs == 1..MaxTopN

\* label of the button that starts a ranking run
RunMatching == "Run Matching Algorithm"

\* f"approve_{match['MenteeID']}_{match['MentorID']}"
approve_key(match) == "approve_" \o match.MenteeID \o "_" \o match.MentorID

\* variant: matches_df[matches_df['Score'] > min_score]
score_above(df, threshold) ==
    SelectSeq(df, LAMBDA match : RGt(match.Score, Int2Rat(threshold)))

\* matches_df[matches_df['Score'] >= min_score]
score_at_least(df, threshold) ==
    SelectSeq(df, LAMBDA match : ~RLt(match.Score, Int2Rat(threshold)))

\* the ranking run of the page: find_best_matches, then the score filter
run_matching(mentors_df, mentees_df, n, threshold) ==
    score_at_least(find_best_matches(mentors_df, mentees_df, n), threshold)

\* the record the approve branch builds; the columns it leaves empty
\* (StartDate, Session1..3, the satisfactions, Outcome, ...) are left out
new_match(stored, match) ==
    [MatchID |-> "MA" \o format_03d(Len(stored) + 1),
     MenteeID |-> match.MenteeID,
     MentorID |-> match.MentorID,
     Status |-> "Proposed",
     PriorityScore |-> match.Score,
     Rationale |-> match.Rationale,
     LPOC |-> match.LPOC,
     EmailSent |-> "No"]

\* what send_match_notification_email returns: enabled is the use_email
\* setting, delivered tells whether the SMTP calls of lines 152-172 complete;
\* an exception of theirs is caught and returned as a failure
send_match_notification_email(enabled, delivered) ==
    IF ~enabled
    THEN [success |-> FALSE, message |-> "Email notifications not configured"]
    ELSE IF delivered
    THEN [success |-> TRUE, message |-> "Email notifications sent successfully!"]
    ELSE [success |-> FALSE, message |-> "Email error"]

\* st.session_state.matches.loc[matches['MatchID'] == match_id, 'EmailSent'] = 'Yes'
mark_email_sent(stored, match_id) ==
    [i \in 1..Len(stored) |->
        IF stored[i].MatchID = match_id
        THEN [stored[i] EXCEPT !.EmailSent = "Yes"]
        ELSE stored[i]]

\* the branch of a pressed approve button: the match is stored, and with the
\* checkbox on and notifications enabled the email is sent and, on success,
\* the stored match marked
approve(match, delivered) ==
    LET record == new_match(matches, match)
        stored == Append(matches, record)
        returned == send_match_notification_email(use_email, delivered)
    IN  IF send_emails /\ use_email
        THEN [matches |-> IF returned.success
                          THEN mark_email_sent(stored, record.MatchID)
                          ELSE stored,
              matches_df |-> <<>>,
              sent |-> Append(sent, [MatchID |-> record.MatchID,
                                     success |-> returned.success])]
        ELSE [matches |-> stored, matches_df |-> <<>>, sent |-> sent]

\* the part of the script below the score filter: the entries are drawn, each
\* with its approve button, and the branch of a pressed button stores a match
\* and restarts the script, which then draws no entries
draw_matches(df, pressed, delivered) ==
    LET approved == SelectSeq(df, LAMBDA match : approve_key(match) = pressed)
    IN  IF approved = <<>>
        THEN [matches |-> matches, matches_df |-> df, sent |-> sent]
        ELSE approve(approved[1], delivered)

\* One run of the page's script.  run_button is the value st.button returns
\* for the run button, pressed the key of the approve button that returns
\* True ("None" = none does) and delivered the fate of an email sent in the
\* run.  The approve buttons are created inside the branch of the run button,
\* so the script reaches them only in a run in which the run button returns
\* True.  The order in which the page draws the entries (lines 620-623) does
\* not change which buttons exist and is left out.
smart_matching_page(run_button, pressed, delivered) ==
    IF Len(mentors) = 0 \/ Len(mentees) = 0
    THEN [matches |-> matches, matches_df |-> <<>>, sent |-> sent]
    ELSE IF ~run_button
    THEN [matches |-> matches, matches_df |-> <<>>, sent |-> sent]
    ELSE draw_matches(run_matching(mentors, mentees, top_n, min_score),
                      pressed, delivered)

\* the script's effect on the session and on what the page shows
rerun(page) ==
    /\ matches' = page.matches
    /\ matches_df' = page.matches_df
    /\ sent' = page.sent

\* the mentors entered in a session of the app: the two that the two mentees
\* rank in opposite orders
SessionMentors == {form \in MentorProfiles : form.Name \in {"Bruno", "Carla"}}

\* the session as the app starts it
InitApp ==
    /\ pc = "app"
    /\ tags1 = NaN
    /\ tags2 = NaN
    /\ mentor_row = NoMentor
    /\ mentee_row = NoMentee
    /\ ret = NoRet
    /\ InitSession

\* the Add Mentor form is submitted with the proposed Mentor ID
Submit_add_mentor ==
    /\ Len(mentors) < MaxRows
    /\ \E form \in SessionMentors :
          mentors' = Append(mentors,
                            new_mentor(default_mentor_id(Len(mentors)), form))
    /\ clicked' = "Add Mentor"
    /\ matches_df' = <<>>
    /\ UNCHANGED <<pc, mentees, matches, top_n, min_score, raised>>
    /\ UNCHANGED email_vars
    /\ UNCHANGED score_vars

\* the Add Mentee form is submitted with the proposed Mentee ID
Submit_add_mentee ==
    /\ Len(mentees) < MaxRows
    /\ \E form \in MenteeProfiles :
          mentees' = Append(mentees,
                            new_mentee(default_mentee_id(Len(mentees)), form))
    /\ clicked' = "Add Mentee"
    /\ matches_df' = <<>>
    /\ UNCHANGED <<pc, mentors, matches, top_n, min_score, raised>>
    /\ UNCHANGED email_vars
    /\ UNCHANGED score_vars

\* the suggestions slider is moved: the script runs with no button pressed
Slide_top_n ==
    /\ Len(mentors) > 0
    /\ Len(mentees) > 0
    /\ top_n' \in TopNs \ {top_n}
    /\ clicked' = "top_n"
    /\ rerun(smart_matching_page(FALSE, "None", FALSE))
    /\ UNCHANGED <<pc, mentors, mentees, min_score, raised>>
    /\ UNCHANGED <<use_email, send_emails>>
    /\ UNCHANGED score_vars

\* the minimum-score slider is moved: the script runs with no button pressed
Slide_min_score ==
    /\ Len(mentors) > 0
    /\ Len(mentees) > 0
    /\ min_score' \in MinScores \ {min_score}
    /\ clicked' = "min_score"
    /\ rerun(smart_matching_page(FALSE, "None", FALSE))
    /\ UNCHANGED <<pc, mentors, mentees, top_n, raised>>
    /\ UNCHANGED <<use_email, send_emails>>
    /\ UNCHANGED score_vars

\* variant: a run adds its entries to those of the run before
Click_run_matching_keeping ==
    /\ Len(mentors) > 0
    /\ Len(mentees) > 0
    /\ clicked' = RunMatching
    /\ rerun(draw_matches(matches_df \o run_matching(mentors, mentees, top_n, min_score),
                          "None", FALSE))
    /\ UNCHANGED <<pc, mentors, mentees, top_n, min_score, raised>>
    /\ UNCHANGED <<use_email, send_emails>>
    /\ UNCHANGED score_vars

\* the run button is clicked: the script runs with the run button returning
\* True and every approve button returning False
Click_run_matching ==
    /\ Len(mentors) > 0
    /\ Len(mentees) > 0
    /\ clicked' = RunMatching
    /\ rerun(smart_matching_page(TRUE, "None", FALSE))
    /\ UNCHANGED <<pc, mentors, mentees, top_n, min_score, raised>>
    /\ UNCHANGED <<use_email, send_emails>>
    /\ UNCHANGED score_vars

\* an approve button drawn by the last run is clicked: the script runs with
\* that button pressed and the run button returning False (st.button returns
\* True only in the run its own click starts)
Click_approve ==
    /\ clicked = RunMatching
    /\ \E i \in 1..Len(matches_df), delivered \in BOOLEAN :
          /\ clicked' = approve_key(matches_df[i])
          /\ rerun(smart_matching_page(FALSE, clicked', delivered))
    /\ UNCHANGED <<pc, mentors, mentees, top_n, min_score, raised>>
    /\ UNCHANGED <<use_email, send_emails>>
    /\ UNCHANGED score_vars

NextApp ==
    \/ Submit_add_mentor
    \/ Submit_add_mentee
    \/ Slide_top_n
    \/ Slide_min_score
    \/ Click_run_matching
    \/ Click_approve

\* the app driven through its forms and the Smart Matching page
SpecApp == InitApp /\ [][NextApp]_vars

-----------------------------------------------------------------------------
(* The Smart Matching page and the email settings *)

\* the notification checkbox of the page is clicked: the script runs with no
\* button pressed
Toggle_send_emails ==
    /\ Len(mentors) > 0
    /\ Len(mentees) > 0
    /\ send_emails' = ~send_emails
    /\ clicked' = "send_emails"
    /\ rerun(smart_matching_page(FALSE, "None", FALSE))
    /\ UNCHANGED <<pc, mentors, mentees, top_n, min_score, raised, use_email>>
    /\ UNCHANGED score_vars

\* the Email Settings form is saved with the other value of "Enable email
\* notifications"; the checkbox of the Smart Matching page takes the setting
\* as its default, and a changed default makes it a new widget
Save_settings ==
    /\ use_email' = ~use_email
    /\ send_emails' = use_email'
    /\ clicked' = "Save Settings"
    /\ matches_df' = <<>>
    /\ UNCHANGED <<pc, mentors, mentees, matches, top_n, min_score, raised, sent>>
    /\ UNCHANGED score_vars

\* a session in which one mentor and one mentee have been entered
InitNotify ==
    /\ pc = "app"
    /\ tags1 = NaN
    /\ tags2 = NaN
    /\ mentor_row = NoMentor
    /\ mentee_row = NoMentee
    /\ ret = NoRet
    /\ \E form \in SessionMentors :
          mentors = <<new_mentor(default_mentor_id(0), form)>>
    /\ \E form \in MenteeProfiles :
          mentees = <<new_mentee(default_mentee_id(0), form)>>
    /\ matches = <<>>
    /\ top_n = 3
    /\ min_score = 40
    /\ matches_df = <<>>
    /\ raised = "None"
    /\ clicked = "None"
    /\ InitEmail

NextNotify ==
    \/ Slide_top_n
    \/ Slide_min_score
    \/ Toggle_send_emails
    \/ Save_settings
    \/ Click_run_matching
    \/ Click_approve

\* the Smart Matching page and the Email Settings page on the entered tables
SpecNotify == InitNotify /\ [][NextNotify]_vars

-----------------------------------------------------------------------------
(* Claims about the Smart Matching page *)

\* the k-th smallest element of a set of numbers
kth(S, k) == CHOOSE i \in S : Cardinality({j \in S : j <= i}) = k

\* the entries of list at the positions of S, in the order of list
at_positions(list, S) == [k \in 1..Cardinality(S) |-> list[kth(S, k)]]

\* C17: after a run the page holds exactly the ranked entries whose score is
\* at least the threshold, in the order of the ranking; entries below it are
\* gone, which may leave a mentee fewer than top_n entries, or none.
C17_ThresholdFilter ==
    clicked = RunMatching =>
        LET ranked == find_best_matches(mentors, mentees, top_n)
            kept == {i \in 1..Len(ranked) :
                        RLeq(Int2Rat(min_score), ranked[i].Score)}
        IN  /\ matches_df = at_positions(ranked, kept)
            /\ \A i \in 1..Len(matches_df) :
                  ~RLt(matches_df[i].Score, Int2Rat(min_score))
            /\ \A e \in 1..Len(mentees) : Len(group(e)) <= top_n

\* a run in which one entry scores exactly the threshold and is kept, one
\* mentee keeps entries and another mentee keeps none
C17_Witness ==
    /\ clicked = RunMatching
    /\ Len(mentees) = 2
    /\ Len(group(1)) > 0
    /\ Len(group(2)) = 0
    /\ Len(find_best_matches(mentors, mentees, top_n)) > Len(matches_df)
    /\ \E i \in 1..Len(matches_df) : matches_df[i].Score = Int2Rat(min_score)

\* C18: a ranking run leaves the mentor table, the mentee table and the stored
\* matches as they were, and what it returns is determined by the two tables,
\* top_n and the threshold alone, whatever ran before.
C18_RankingIsPure ==
    [][clicked' = RunMatching =>
          /\ mentors' = mentors
          /\ mentees' = mentees
          /\ matches' = matches
          /\ matches_df' =
                 score_at_least(find_best_matches(mentors', mentees', top_n'),
                                min_score')]_vars

\* a second run right after a run with other slider values
C18_Witness ==
    /\ clicked = RunMatching
    /\ Len(mentors) = 2
    /\ Len(mentees) = 2
    /\ Len(matches_df) = 4

\* per mentee: the sorted list filtered by the threshold, then cut to top_n
RECURSIVE filter_then_truncate(_, _, _, _)
filter_then_truncate(mentors_df, mentees_df, n, threshold) ==
    IF mentees_df = <<>> THEN <<>>
    ELSE filter_then_truncate(mentors_df,
                              SubSeq(mentees_df, 1, Len(mentees_df) - 1),
                              n, threshold)
            \o slice(score_at_least(
                         sort_reverse(score_all(mentors_df,
                                                mentees_df[Len(mentees_df)])),
                         threshold), n)

\* table s continued by further rows gives table t
continues(s, t) == Len(s) <= Len(t) /\ SubSeq(t, 1, Len(s)) = s

\* C19 as stated: there are a mentor table, a mentee table, top_n and a
\* threshold (tables the session's tables can be continued to) for which
\* cutting to top_n and then filtering gives another list than filtering and
\* then cutting to top_n.
C19_OrdersDiffer ==
    \E mentors_df \in MentorTables(MaxRows), mentees_df \in MenteeTables(MaxRows),
       n \in TopNs, threshold \in MinScores :
        /\ continues(mentors, mentors_df)
        /\ continues(mentees, mentees_df)
        /\ run_matching(mentors_df, mentees_df, n, threshold)
              # filter_then_truncate(mentors_df, mentees_df, n, threshold)

\* C19 amended: the list of a run (cut to top_n, then filtered) is the list
\* that filtering first and cutting to top_n afterwards gives: on a list in
\* descending order of score both steps keep a leading part.
C19_OrdersAgree ==
    clicked = RunMatching =>
        matches_df = filter_then_truncate(mentors, mentees, top_n, min_score)

\* a run in which the cut drops a mentor that passes the threshold and the
\* threshold drops an entry that passes the cut
C19_Witness ==
    /\ clicked = RunMatching
    /\ top_n = 1
    /\ Len(mentors) = 2
    /\ Len(mentees) = 2
    /\ Len(matches_df) = 1
    /\ \A j \in 1..2 : RLeq(Int2Rat(min_score), pair_score(j, 1))
    /\ \A j \in 1..2 : RLt(pair_score(j, 2), Int2Rat(min_score))

\* the approve buttons on the page
approve_keys == {approve_key(matches_df[i]) : i \in 1..Len(matches_df)}

\* the entry an approve button belongs to
entry_of(key) == matches_df[CHOOSE i \in 1..Len(matches_df) : approve_key(matches_df[i]) = key]

\* C20: the script run that a click on an approve button starts appends
\* exactly one record to the stored matches, with the entry's Mentee ID,
\* Mentor ID, score and rationale, Status "Proposed" and a MatchID no stored
\* match has, and leaves the mentor and mentee tables as they were.
C20_ApproveAppends ==
    [][(clicked = RunMatching /\ clicked' \in approve_keys) =>
          /\ Len(matches') = Len(matches) + 1
          /\ SubSeq(matches', 1, Len(matches)) = matches
          /\ LET stored == matches'[Len(matches')]
                 entry == entry_of(clicked')
             IN  /\ stored.MenteeID = entry.MenteeID
                 /\ stored.MentorID = entry.MentorID
                 /\ stored.PriorityScore = entry.Score
                 /\ stored.Rationale = entry.Rationale
                 /\ stored.Status = "Proposed"
                 /\ \A i \in 1..Len(matches) : matches[i].MatchID # stored.MatchID
          /\ mentors' = mentors
          /\ mentees' = mentees]_vars

\* C21: the script run that a click on an approve button starts stores the
\* match whatever becomes of the email; the stored match has EmailSent "Yes"
\* only if send_match_notification_email was called for it and returned
\* success, and "No" when notifications are disabled, the checkbox is off or
\* the call returned a failure; and at all times every stored match with
\* EmailSent "Yes" has a successful call of its own.
C21_EmailSentOnlyOnSuccess ==
    [][/\ (clicked = RunMatching /\ clicked' \in approve_keys) =>
            /\ Len(matches') = Len(matches) + 1
            /\ SubSeq(matches', 1, Len(matches)) = matches
            /\ LET stored == matches'[Len(matches')]
                   called == Len(sent') = Len(sent) + 1
                   returned == sent'[Len(sent')]
               IN  /\ stored.EmailSent \in {"Yes", "No"}
                   /\ stored.EmailSent = "Yes" =>
                        (called /\ returned.success
                                /\ returned.MatchID = stored.MatchID)
                   /\ (~use_email \/ ~send_emails \/ (called /\ ~returned.success))
                        => stored.EmailSent = "No"
       /\ \A i \in 1..Len(matches') :
            matches'[i].EmailSent = "Yes" =>
                \E k \in 1..Len(sent') :
                    sent'[k].MatchID = matches'[i].MatchID /\ sent'[k].success]_vars

\* C22: every score calculate_match_score returns is at least 17.0, so it is
\* not 0 and the score filter keeps it for every threshold up to 17; the score
\* is 17.0 when the three tag overlaps are 0, the languages do not match, the
\* formats and the time zones are incompatible and an availability is null.
C22_ScoreAtLeast17 ==
    pc = "calculate_match_score" =>
        /\ RLeq(Int2Rat(17), ret.score)
        /\ ret.score # Int2Rat(0)
        /\ \A threshold \in 0..17 :
              score_at_least(<<[Score |-> ret.score]>>, threshold) # <<>>
        /\ (/\ isna(mentor_row.Availability) \/ isna(mentee_row.Availability)
            /\ ~check_language_match(mentor_row.Languages, mentee_row.Languages)
            /\ ~check_format_compatibility(mentor_row.Format, mentee_row.Format)
            /\ ~check_timezone_compatibility(mentor_row.TimeZone, mentee_row.TimeZone)
            /\ calculate_tag_overlap(mentor_row.Sectors, mentee_row.Sector) = Int2Rat(0)
            /\ calculate_tag_overlap(mentor_row.Expertise, mentee_row.Needs) = Int2Rat(0)
            /\ calculate_tag_overlap(mentor_row.Functions, mentee_row.Needs) = Int2Rat(0))
              => ret.score = Int2Rat(17)

\* formats "Remote" / "In-person" and time zones "UTC+1" / "UTC+01:00" present
\* and different, no common language, no common tag, the mentee's
\* availability null: the score is 17.0
C22_Witness ==
    /\ pc = "calculate_match_score"
    /\ mentor_row.Format = Remote
    /\ mentee_row.Format = In_person
    /\ mentor_row.TimeZone = UTC_1
    /\ mentee_row.TimeZone = UTC_01_00
    /\ mentor_row.Languages = English_Portuguese
    /\ mentee_row.Languages = Spanish
    /\ isna(mentee_row.Availability)
    /\ ~isna(mentor_row.Availability)
    /\ calculate_tag_overlap(mentor_row.Sectors, mentee_row.Sector) = Int2Rat(0)
    /\ calculate_tag_overlap(mentor_row.Expertise, mentee_row.Needs) = Int2Rat(0)
    /\ calculate_tag_overlap(mentor_row.Functions, mentee_row.Needs) = Int2Rat(0)
    /\ ret.score = Int2Rat(17)

====
